---- MODULE Spec2Model ----
(***************************************************************************)
(* Lyric video maker: the VideoPlayer component (preview timeline index,   *)
(* offline export pipeline handleExport, fade envelope) and the App        *)
(* component (form, SRT import, screens) as a state machine.               *)
(*                                                                         *)
(* Time is counted in ticks of 1/3000 s, so that a millisecond (3 ticks),  *)
(* a frame period at 30 fps (100 ticks) and the 0.4 s fade (1200 ticks)    *)
(* are all whole numbers.  Quotients the code computes (opacity, yOffset,  *)
(* progress) are kept as fractions [num, den]; 0/0 is JavaScript's NaN.    *)
(***************************************************************************)
EXTENDS Integers, Sequences, FiniteSets, TLC

VARIABLES
    timedLyrics,        \* prop: sequence of [startTime, endTime] (ticks)
    duration,           \* useState(0): audio duration (ticks)
    currentTime,        \* useState(0): sampled playback time (ticks)
    currentLyricIndex,  \* useState(-1): index resolved by the preview
    pc,                 \* position of handleExport
    exportDuration,     \* the duration captured by the running handleExport
    ffmpegLoaded,       \* ffmpegRef.current.isLoaded()
    fs,                 \* files held by the encoder instance (ffmpeg.FS)
    totalFrames,        \* const totalFrames of the running export
    i,                  \* loop variable of the frame loop
    written,            \* frame indices written by the running export, in order
    frame,              \* the frame drawn last: index, time, lyric, envelope
    loadingState,       \* useState(null): message and progress, or Null
    alertCount,         \* alert() calls since the export run began
    downloadCount,      \* a.click() downloads since the export run began
    muxCalls,           \* ffmpeg.run calls since the export run began
    failedStep,         \* the step of the run that failed, or "none"
    runs,               \* export runs started so far
    appState,           \* App: useState('CHOOSER')
    lyricsText,         \* App: useState('')
    songTitle,          \* App: useState('')
    artistName,         \* App: useState('')
    audioFile,          \* App: useState(null): TRUE when a file is chosen
    audioInputMethod,   \* App: useState('upload')
    audioUrlInput,      \* App: useState('')
    isAiGeneratorUnlocked,  \* App: useState(false)
    feedbackMessage,    \* App: useState(null): "" for null
    srtReading,         \* a FileReader is reading an SRT file
    style,              \* the style states (here: resolution, lyricPosition)
    exportStyle,        \* the style states as the running handleExport sees them
    exportLyrics,       \* the timedLyrics prop as the running handleExport sees it
    frameStyle,         \* the style the frame written last was drawn with
    muxArgs,            \* the arguments of the last ffmpeg.run call
    output,             \* the video in output.mp4, if ffmpeg.run has written one
    srtContent,         \* the text of the .srt file downloaded last, if any
    reentered           \* handleExport invocations begun during a run, unfinished

vars == <<timedLyrics, duration, currentTime, currentLyricIndex, pc,
          exportDuration, ffmpegLoaded, fs, totalFrames, i, written, frame,
          loadingState, alertCount, downloadCount, muxCalls, failedStep, runs,
          appState, lyricsText, songTitle, artistName, audioFile,
          audioInputMethod, audioUrlInput, isAiGeneratorUnlocked,
          feedbackMessage, srtReading, style, exportStyle, exportLyrics,
          frameStyle, muxArgs, output, srtContent, reentered>>

\* the state of App other than timedLyrics
appVars == <<appState, lyricsText, songTitle, artistName, audioFile,
             audioInputMethod, audioUrlInput, isAiGeneratorUnlocked,
             feedbackMessage, srtReading>>

formVars == <<songTitle, artistName, audioFile, audioInputMethod,
              audioUrlInput>>

previewVars == <<currentTime, currentLyricIndex>>

exportVars == <<pc, exportDuration, ffmpegLoaded, fs, totalFrames, i, written,
                loadingState, alertCount, downloadCount, muxCalls, failedStep,
                runs, exportStyle, exportLyrics, frameStyle, muxArgs, output,
                srtContent, reentered>>

\* the state of a mounted VideoPlayer
playerVars == <<duration, frame, style, previewVars, exportVars>>

----------------------------------------------------------------------------
(* Program constants and units *)

frameRate == 30

yOffsetAmount == 10

\* 3000 ticks to the second: 100 to a frame period, 3 to a millisecond
TicksPerSecond == frameRate * 100

TicksPerFrame == TicksPerSecond \div frameRate

TicksPerMs == TicksPerSecond \div 1000

FADE_DURATION_S == (4 * TicksPerSecond) \div 10

\* padStart(4, '0') in the frame file name
PadWidth == 4

\* character codes: '0', and the strings "frame" and ".png"
CharZero == 48

NameFrame == <<102, 114, 97, 109, 101>>

NamePng == <<46, 112, 110, 103>>

----------------------------------------------------------------------------
(* Bounds of the model *)

\* longest event list of the timeline inputs
MaxEvents == 3

\* the timeline inputs take their times from 0..MaxCoarse coarse steps
MaxCoarse == 1

\* the envelope inputs take their times from 0..MaxFine fine steps
MaxFine == 7

\* the preview samples the frame times 0..MaxPreviewFrame
MaxPreviewFrame == 3

\* the frame-count inputs are 0..MaxDurSteps duration steps
MaxDurSteps == 6

\* export runs started in one behaviour
MaxRuns == 2

\* activations of the export button during a run, in one behaviour
MaxReentries == 1

\* the export runs' audio is 0..MaxExportDur duration steps long
MaxExportDur == 3

CoarseStep == 2 * TicksPerFrame

FineStep == (9 * TicksPerFrame) \div 2

DurStep == 70 * TicksPerMs

ExportDurStep == 50 * TicksPerMs

----------------------------------------------------------------------------
(* Fractions *)

Rat(n, d) == [num |-> n, den |-> d]

IsNaN(r) == r.num = 0 /\ r.den = 0

\* a / b for fractions with b >= 0; 0/0 is NaN
RatDiv(a, b) == Rat(a.num * b.den, a.den * b.num)

RatOneMinus(r) == Rat(r.den - r.num, r.den)

RatScale(k, r) == Rat(k * r.num, r.den)

\* comparisons of fractions with positive denominators
RatEq(a, b) == a.num * b.den = b.num * a.den

RatLeq(a, b) == a.num * b.den <= b.num * a.den

RatLt(a, b) == a.num * b.den < b.num * a.den

----------------------------------------------------------------------------
(* Timeline index *)

\* the preview's scan: from the last event backward, the first with
\* startTime <= t
\* faulty variant: the scan compares t with the event's endTime
RECURSIVE BackwardScanByEnd(_, _, _)
BackwardScanByEnd(lyrics, t, k) ==
    IF k < 0 THEN -1
    ELSE IF t <= lyrics[k + 1].endTime THEN k
    ELSE BackwardScanByEnd(lyrics, t, k - 1)

RECURSIVE BackwardScan(_, _, _)
BackwardScan(lyrics, t, k) ==
    IF k < 0 THEN -1
    ELSE IF t >= lyrics[k + 1].startTime THEN k
    ELSE BackwardScan(lyrics, t, k - 1)

\* faulty variant: the "between lyrics" reset left out
ResolveWithoutGapReset(lyrics, t) == BackwardScan(lyrics, t, Len(lyrics) - 1)

\* the effect on [currentTime, timedLyrics]: the index it sets
ResolveCurrentLyricIndex(lyrics, t) ==
    LET newIndex == BackwardScan(lyrics, t, Len(lyrics) - 1)
    IN  IF newIndex # -1 /\ t > lyrics[newIndex + 1].endTime
        THEN -1
        ELSE newIndex

\* the export's per-frame scan: forward, the first event with
\* startTime <= frameTime <= endTime
RECURSIVE ForwardScan(_, _, _)
ForwardScan(lyrics, frameTime, j) ==
    IF j >= Len(lyrics) THEN -1
    ELSE IF frameTime >= lyrics[j + 1].startTime
            /\ frameTime <= lyrics[j + 1].endTime THEN j
    ELSE ForwardScan(lyrics, frameTime, j + 1)

\* faulty variant: the end of the window excluded (frameTime < endTime)
RECURSIVE ForwardScanOpenEnd(_, _, _)
ForwardScanOpenEnd(lyrics, frameTime, j) ==
    IF j >= Len(lyrics) THEN -1
    ELSE IF frameTime >= lyrics[j + 1].startTime
            /\ frameTime < lyrics[j + 1].endTime THEN j
    ELSE ForwardScanOpenEnd(lyrics, frameTime, j + 1)

FrameLyricIndexOpenEnd(lyrics, frameTime) ==
    ForwardScanOpenEnd(lyrics, frameTime, 0)

FrameLyricIndex(lyrics, frameTime) == ForwardScan(lyrics, frameTime, 0)

----------------------------------------------------------------------------
(* Fade envelope of the export path *)

NoFade == [opacity |-> Rat(1, 1), yOffset |-> Rat(0, 1)]

\* faulty variant: the fade-out moves the text down, like the fade-in
LongEnvelopeSameOffset(lyricDuration, timeIntoLyric) ==
    IF timeIntoLyric < FADE_DURATION_S
    THEN LET opacity == Rat(timeIntoLyric, FADE_DURATION_S)
         IN  [opacity |-> opacity,
              yOffset |-> RatScale(yOffsetAmount, RatOneMinus(opacity))]
    ELSE IF lyricDuration - timeIntoLyric < FADE_DURATION_S
    THEN LET opacity == Rat(lyricDuration - timeIntoLyric, FADE_DURATION_S)
         IN  [opacity |-> opacity,
              yOffset |-> RatScale(yOffsetAmount, RatOneMinus(opacity))]
    ELSE NoFade

\* lyricDuration > FADE_DURATION_S * 2: fade in, steady, fade out
LongEnvelope(lyricDuration, timeIntoLyric) ==
    IF timeIntoLyric < FADE_DURATION_S
    THEN LET opacity == Rat(timeIntoLyric, FADE_DURATION_S)
         IN  [opacity |-> opacity,
              yOffset |-> RatScale(yOffsetAmount, RatOneMinus(opacity))]
    ELSE IF lyricDuration - timeIntoLyric < FADE_DURATION_S
    THEN LET opacity == Rat(lyricDuration - timeIntoLyric, FADE_DURATION_S)
         IN  [opacity |-> opacity,
              yOffset |-> RatScale(-yOffsetAmount, RatOneMinus(opacity))]
    ELSE NoFade

\* faulty variant: the fade-out divides by the whole duration
ShortEnvelopeWholeDuration(lyricDuration, timeIntoLyric) ==
    LET halfDuration == Rat(lyricDuration, 2)
    IN  IF RatLt(Rat(timeIntoLyric, 1), halfDuration)
        THEN [opacity |-> RatDiv(Rat(timeIntoLyric, 1), halfDuration),
              yOffset |-> Rat(0, 1)]
        ELSE [opacity |-> RatDiv(Rat(lyricDuration - timeIntoLyric, 1),
                                 Rat(lyricDuration, 1)),
              yOffset |-> Rat(0, 1)]

\* short lyrics: fade in and out over the whole duration
ShortEnvelope(lyricDuration, timeIntoLyric) ==
    LET halfDuration == Rat(lyricDuration, 2)
    IN  IF RatLt(Rat(timeIntoLyric, 1), halfDuration)
        THEN [opacity |-> RatDiv(Rat(timeIntoLyric, 1), halfDuration),
              yOffset |-> Rat(0, 1)]
        ELSE [opacity |-> RatDiv(Rat(lyricDuration - timeIntoLyric, 1),
                                 halfDuration),
              yOffset |-> Rat(0, 1)]

Envelope(lyric, frameTime) ==
    LET lyricDuration == lyric.endTime - lyric.startTime
        timeIntoLyric == frameTime - lyric.startTime
    IN  IF lyricDuration > FADE_DURATION_S * 2
        THEN LongEnvelope(lyricDuration, timeIntoLyric)
        ELSE ShortEnvelope(lyricDuration, timeIntoLyric)

----------------------------------------------------------------------------
(* One iteration of the frame loop, as a function of the frame index *)

FrameTime(n) == (n * TicksPerSecond) \div frameRate

\* faulty variant: Math.round in place of Math.floor
TotalFramesRounded(d) ==
    (2 * d * frameRate + TicksPerSecond) \div (2 * TicksPerSecond)

\* faulty variant: Math.ceil in place of Math.floor
TotalFramesCeiling(d) ==
    (d * frameRate + TicksPerSecond - 1) \div TicksPerSecond

TotalFrames(d) == (d * frameRate) \div TicksPerSecond

NoFrame == [index |-> -1, frameTime |-> 0, lyricIndex |-> -1,
            opacity |-> Rat(1, 1), yOffset |-> Rat(0, 1)]

DrawFrame(lyrics, n) ==
    LET frameTime == FrameTime(n)
        frameLyricIndex == FrameLyricIndex(lyrics, frameTime)
        env == IF frameLyricIndex > -1
               THEN Envelope(lyrics[frameLyricIndex + 1], frameTime)
               ELSE NoFade
    IN  [index |-> n, frameTime |-> frameTime,
         lyricIndex |-> frameLyricIndex,
         opacity |-> env.opacity, yOffset |-> env.yOffset]

----------------------------------------------------------------------------
(* Inputs *)

Event(s, e) == [startTime |-> s, endTime |-> e]

CoarseTimes == {k * CoarseStep : k \in 0..MaxCoarse}

FineTimes == {k * FineStep : k \in 0..MaxFine}

CoarseEvents == {Event(s, e) : s \in CoarseTimes, e \in CoarseTimes}

FineEvents == {Event(s, e) : s \in FineTimes, e \in FineTimes}

\* every event list of up to MaxEvents coarse events, well-formed or not
TimelineLists == UNION {[1..n -> CoarseEvents] : n \in 0..MaxEvents}

PreviewTimes == {FrameTime(k) : k \in 0..MaxPreviewFrame}

\* [lyrics, duration] of the frame samples: event lists on the coarse grid,
\* single events on the fine grid (long, short and empty ones), and
\* durations off the frame grid, 10.03 s among them
SampleInputs ==
    {[lyrics |-> l, duration |-> MaxCoarse * CoarseStep + 2 * TicksPerFrame]
        : l \in TimelineLists}
    \cup {[lyrics |-> <<e>>, duration |-> MaxFine * FineStep + 2 * TicksPerFrame]
        : e \in FineEvents}
    \cup {[lyrics |-> <<>>, duration |-> k * DurStep] : k \in 0..MaxDurSteps}
    \cup {[lyrics |-> <<>>, duration |-> 10030 * TicksPerMs]}

ExportLyrics == {l \in TimelineLists : Len(l) <= 1}

ExportDurations == {k * ExportDurStep : k \in 0..MaxExportDur}

----------------------------------------------------------------------------
(* Loader state and encoder file system *)

Null == [shown |-> FALSE, message |-> "", progress |-> <<>>]

Loading(message, progress) ==
    [shown |-> TRUE, message |-> message, progress |-> progress]

EmptyFS == [audio |-> FALSE, background |-> FALSE, frames |-> {},
            output |-> FALSE]

\* progress shown after frame index n of total has been written
FrameProgress(n, total) == RatScale(100, Rat(n, total))

\* faulty variant: the loop steps by two
NextFrameSkipping(n) == n + 2

NextFrame(n) == n + 1

\* String(n): the decimal digits of n >= 0, as character codes
RECURSIVE DecimalString(_)
DecimalString(n) ==
    IF n < 10 THEN <<CharZero + n>>
    ELSE Append(DecimalString(n \div 10), CharZero + (n % 10))

\* str.padStart(width, '0'): zeros in front up to width, never a cut
RECURSIVE PadStart(_, _)
PadStart(str, width) ==
    IF Len(str) >= width THEN str ELSE PadStart(<<CharZero>> \o str, width)

\* `frame${String(i).padStart(4, '0')}.png`
FrameFileName(n) ==
    NameFrame \o PadStart(DecimalString(n), PadWidth) \o NamePng

\* a < b in the order of strings (by character code, a prefix first)
RECURSIVE LexLess(_, _)
LexLess(a, b) ==
    IF b = <<>> THEN FALSE
    ELSE IF a = <<>> THEN TRUE
    ELSE IF Head(a) # Head(b) THEN Head(a) < Head(b)
    ELSE LexLess(Tail(a), Tail(b))

----------------------------------------------------------------------------
(* Style states, and the encoder call *)

\* two of the style states stand for all of them
Resolutions == {"720p", "1080p"}

LyricPositions == {"center", "top"}

DefaultStyle == [resolution |-> "720p", lyricPosition |-> "center"]

\* faulty variant: the frame loop reads the style of the moment
StyleReadLive == style

\* the style states handleExport reads are those of its closure
StyleRead == exportStyle

\* faulty variant: ffmpeg.run called without '-shortest'
MuxArgsWithoutShortest ==
    [framerate |-> frameRate,
     inputs |-> <<"frame%04d.png", "audio.mp3">>,
     options |-> {"-c:v libx264", "-c:a aac", "-pix_fmt yuv420p"},
     out |-> "output.mp4"]

\* the arguments of ffmpeg.run
MuxArgs ==
    [framerate |-> frameRate,
     inputs |-> <<"frame%04d.png", "audio.mp3">>,
     options |-> {"-c:v libx264", "-c:a aac", "-shortest",
                  "-pix_fmt yuv420p"},
     out |-> "output.mp4"]

NoArgs == [framerate |-> 0, inputs |-> <<>>, options |-> {}, out |-> ""]

NoOutput == [present |-> FALSE, audio |-> 0, duration |-> 0]

\* the frames the encoder reads for frame%04d.png: 0, 1, 2, ... up to the
\* first number with no file
RECURSIVE FramesRead(_, _)
FramesRead(frames, n) ==
    IF n \in frames THEN FramesRead(frames, n + 1) ELSE n

\* the length of the encoder's output: with '-shortest' the shorter of the
\* frame sequence and the audio, else the longer
EncoderOutputDuration(args, frames, audioLength) ==
    LET videoLength ==
            IF args.framerate = 0 THEN 0
            ELSE (FramesRead(frames, 0) * TicksPerSecond) \div args.framerate
    IN  IF "-shortest" \in args.options
        THEN IF videoLength <= audioLength THEN videoLength ELSE audioLength
        ELSE IF videoLength <= audioLength THEN audioLength ELSE videoLength

\* the length of the audio asset: the duration the audio element reported,
\* or any length while none is known
AudioLengths == IF duration > 0 THEN {duration} ELSE ExportDurations

----------------------------------------------------------------------------
(* The SRT export *)

\* the characters of an .srt file, as character codes
CharLF == 10
CharCR == 13
CharSpace == 32
CharComma == 44
CharMinus == 45
CharColon == 58
CharGreater == 62

CRLF == <<CharCR, CharLF>>
Arrow == <<CharSpace, CharMinus, CharMinus, CharGreater, CharSpace>>

\* pad: num.toString().padStart(length, '0')
pad(num, length) == PadStart(DecimalString(num), length)

\* secondsToSrtTime of a time in ticks: hours, minutes and seconds are floors,
\* the milliseconds are the fraction of the second times 1000, rounded
secondsToSrtTime(timeInSeconds) ==
    LET hours == timeInSeconds \div (3600 * TicksPerSecond)
        minutes == (timeInSeconds % (3600 * TicksPerSecond))
                       \div (60 * TicksPerSecond)
        seconds == (timeInSeconds % (60 * TicksPerSecond)) \div TicksPerSecond
        fraction == timeInSeconds % TicksPerSecond
        milliseconds == (2 * fraction + TicksPerMs) \div (2 * TicksPerMs)
    IN pad(hours, 2) \o <<CharColon>> \o pad(minutes, 2) \o <<CharColon>>
           \o pad(seconds, 2) \o <<CharComma>> \o pad(milliseconds, 3)

\* `${index + 1}\r\n${startTime} --> ${endTime}\r\n${lyric.text}`
SrtEntry(lyric, index) ==
    DecimalString(index + 1) \o CRLF \o secondsToSrtTime(lyric.startTime)
        \o Arrow \o secondsToSrtTime(lyric.endTime) \o CRLF \o lyric.text

\* faulty variant: the entries joined by a line break only
RECURSIVE SrtJoinWithoutBlankLine(_, _)
SrtJoinWithoutBlankLine(lyrics, k) ==
    IF k >= Len(lyrics) THEN <<>>
    ELSE SrtEntry(lyrics[k + 1], k)
             \o (IF k + 1 < Len(lyrics) THEN CRLF ELSE <<>>)
             \o SrtJoinWithoutBlankLine(lyrics, k + 1)

\* timedLyrics.map(...).join('\r\n\r\n'), from the entry of 0-based index k on
RECURSIVE SrtJoin(_, _)
SrtJoin(lyrics, k) ==
    IF k >= Len(lyrics) THEN <<>>
    ELSE SrtEntry(lyrics[k + 1], k)
             \o (IF k + 1 < Len(lyrics) THEN CRLF \o CRLF ELSE <<>>)
             \o SrtJoin(lyrics, k + 1)

NoSrt == [present |-> FALSE, text |-> <<>>]

InitRunVars ==
    /\ style = DefaultStyle
    /\ exportStyle = DefaultStyle
    /\ exportLyrics = <<>>
    /\ frameStyle = DefaultStyle
    /\ muxArgs = NoArgs
    /\ output = NoOutput
    /\ srtContent = NoSrt
    /\ reentered = 0

setResolution(value) ==
    /\ style' = [style EXCEPT !.resolution = value]
    /\ UNCHANGED <<timedLyrics, duration, frame>>
    /\ UNCHANGED previewVars
    /\ UNCHANGED exportVars
    /\ UNCHANGED appVars

setLyricPosition(value) ==
    /\ style' = [style EXCEPT !.lyricPosition = value]
    /\ UNCHANGED <<timedLyrics, duration, frame>>
    /\ UNCHANGED previewVars
    /\ UNCHANGED exportVars
    /\ UNCHANGED appVars

----------------------------------------------------------------------------
(* Preview: timeupdate, seek, and the effect that re-resolves the index *)

TimeUpdate(t) ==
    /\ currentTime' = t
    /\ currentLyricIndex' = ResolveCurrentLyricIndex(timedLyrics, t)
    /\ UNCHANGED <<timedLyrics, duration, frame, style>>
    /\ UNCHANGED exportVars
    /\ UNCHANGED appVars

HandleTimelineChange(t) ==
    /\ currentTime' = t
    /\ currentLyricIndex' = ResolveCurrentLyricIndex(timedLyrics, t)
    /\ UNCHANGED <<timedLyrics, duration, frame, style>>
    /\ UNCHANGED exportVars
    /\ UNCHANGED appVars

\* handleExportSrt: with no event an alert and nothing else, otherwise the
\* download of the entries joined by blank lines
handleExportSrt ==
    /\ srtContent' = IF timedLyrics = <<>> THEN srtContent
                     ELSE [present |-> TRUE, text |-> SrtJoin(timedLyrics, 0)]
    /\ UNCHANGED <<timedLyrics, duration, frame, style, previewVars>>
    /\ UNCHANGED <<pc, exportDuration, ffmpegLoaded, fs, totalFrames, i,
                   written, loadingState, alertCount, downloadCount, muxCalls,
                   failedStep, runs, exportStyle, exportLyrics, frameStyle,
                   muxArgs, output, reentered>>
    /\ UNCHANGED appVars

LoadedMetadata(d) ==
    /\ duration = 0
    /\ duration' = d
    /\ UNCHANGED <<timedLyrics, frame, style>>
    /\ UNCHANGED previewVars
    /\ UNCHANGED exportVars
    /\ UNCHANGED appVars

----------------------------------------------------------------------------
(* handleExport *)

\* the catch block: one alert, the loader cleared
Catch(step) ==
    /\ loadingState' = Null
    /\ alertCount' = alertCount + 1
    /\ failedStep' = step
    /\ pc' = "failed"

\* faulty variant: with the encoder already loaded, the loading step is left
\* out altogether
StartExportSkippingLoad ==
    /\ ~loadingState.shown
    /\ pc \in {"idle", "done", "failed"}
    /\ runs < MaxRuns
    /\ runs' = runs + 1
    /\ exportDuration' = duration
    /\ alertCount' = 0
    /\ downloadCount' = 0
    /\ muxCalls' = 0
    /\ failedStep' = "none"
    /\ written' = <<>>
    /\ totalFrames' = 0
    /\ i' = 0
    /\ frame' = NoFrame
    /\ IF ffmpegLoaded
       THEN pc' = "fetchAudio" /\ loadingState' = Loading("read", <<>>)
       ELSE pc' = "load" /\ loadingState' = Loading("load", <<>>)
    /\ UNCHANGED <<timedLyrics, duration, ffmpegLoaded, fs>>
    /\ exportStyle' = style
    /\ exportLyrics' = timedLyrics
    /\ frameStyle' = style
    /\ muxArgs' = NoArgs
    /\ UNCHANGED <<style, output>>
    /\ UNCHANGED previewVars
    /\ UNCHANGED <<srtContent, reentered>>
    /\ UNCHANGED appVars

\* the export button: the run begins with the loading message, whether or
\* not the encoder is loaded already
StartExport ==
    /\ ~loadingState.shown
    /\ pc \in {"idle", "done", "failed"}
    /\ runs < MaxRuns
    /\ runs' = runs + 1
    /\ exportDuration' = duration
    /\ alertCount' = 0
    /\ downloadCount' = 0
    /\ muxCalls' = 0
    /\ failedStep' = "none"
    /\ written' = <<>>
    /\ totalFrames' = 0
    /\ i' = 0
    /\ frame' = NoFrame
    /\ loadingState' = Loading("load", <<>>)
    /\ pc' = "load"
    /\ UNCHANGED <<timedLyrics, duration, ffmpegLoaded, fs>>
    /\ exportStyle' = style
    /\ exportLyrics' = timedLyrics
    /\ frameStyle' = style
    /\ muxArgs' = NoArgs
    /\ UNCHANGED <<style, output>>
    /\ UNCHANGED previewVars
    /\ UNCHANGED <<srtContent, reentered>>
    /\ UNCHANGED appVars

\* the export button activated while a run is in progress (onClick has no
\* check of a running export and the button no disabled state): a second
\* invocation begins with the loading message; its later steps are those of
\* the first and are not followed here
StartExportWhileRunning ==
    /\ pc \notin {"idle", "done", "failed"}
    /\ reentered < MaxReentries
    /\ reentered' = reentered + 1
    /\ loadingState' = Loading("load", <<>>)
    /\ UNCHANGED <<timedLyrics, duration, frame, style, previewVars>>
    /\ UNCHANGED <<pc, exportDuration, ffmpegLoaded, fs, totalFrames, i,
                   written, alertCount, downloadCount, muxCalls, failedStep,
                   runs, exportStyle, exportLyrics, frameStyle, muxArgs,
                   output, srtContent>>
    /\ UNCHANGED appVars

\* the encoder is loaded already, or ffmpeg.load() resolves
LoadOk ==
    /\ pc = "load"
    /\ ffmpegLoaded' = TRUE
    /\ loadingState' = Loading("read", <<>>)
    /\ pc' = "fetchAudio"
    /\ UNCHANGED <<timedLyrics, duration, exportDuration, fs, totalFrames, i,
                   written, frame, alertCount, downloadCount, muxCalls,
                   failedStep, runs>>
    /\ UNCHANGED <<style, exportStyle, exportLyrics, frameStyle, muxArgs,
                   output>>
    /\ UNCHANGED previewVars
    /\ UNCHANGED <<srtContent, reentered>>
    /\ UNCHANGED appVars

\* ffmpeg.load() rejects
LoadFail ==
    /\ pc = "load"
    /\ ~ffmpegLoaded
    /\ Catch("load")
    /\ UNCHANGED <<timedLyrics, duration, exportDuration, ffmpegLoaded, fs,
                   totalFrames, i, written, frame, downloadCount, muxCalls,
                   runs>>
    /\ UNCHANGED <<style, exportStyle, exportLyrics, frameStyle, muxArgs,
                   output>>
    /\ UNCHANGED previewVars
    /\ UNCHANGED <<srtContent, reentered>>
    /\ UNCHANGED appVars

FetchAudioOk ==
    /\ pc = "fetchAudio"
    /\ pc' = "fetchImage"
    /\ UNCHANGED <<timedLyrics, duration, exportDuration, ffmpegLoaded, fs,
                   totalFrames, i, written, frame, loadingState, alertCount,
                   downloadCount, muxCalls, failedStep, runs>>
    /\ UNCHANGED <<style, exportStyle, exportLyrics, frameStyle, muxArgs,
                   output>>
    /\ UNCHANGED previewVars
    /\ UNCHANGED <<srtContent, reentered>>
    /\ UNCHANGED appVars

\* the image fetched: both assets written, the frame count fixed, the
\* background image handed to the decoder
FetchImageOk ==
    /\ pc = "fetchImage"
    /\ fs' = [fs EXCEPT !.audio = TRUE, !.background = TRUE]
    /\ totalFrames' = TotalFrames(exportDuration)
    /\ pc' = "imageLoad"
    /\ UNCHANGED <<timedLyrics, duration, exportDuration, ffmpegLoaded, i,
                   written, frame, loadingState, alertCount, downloadCount,
                   muxCalls, failedStep, runs>>
    /\ UNCHANGED <<style, exportStyle, exportLyrics, frameStyle, muxArgs,
                   output>>
    /\ UNCHANGED previewVars
    /\ UNCHANGED <<srtContent, reentered>>
    /\ UNCHANGED appVars

FetchFail ==
    /\ pc \in {"fetchAudio", "fetchImage"}
    /\ Catch("fetch")
    /\ UNCHANGED <<timedLyrics, duration, exportDuration, ffmpegLoaded, fs,
                   totalFrames, i, written, frame, downloadCount, muxCalls,
                   runs>>
    /\ UNCHANGED <<style, exportStyle, exportLyrics, frameStyle, muxArgs,
                   output>>
    /\ UNCHANGED previewVars
    /\ UNCHANGED <<srtContent, reentered>>
    /\ UNCHANGED appVars

\* bgImage.onload
ImageLoaded ==
    /\ pc = "imageLoad"
    /\ loadingState' = Loading("render", <<Rat(0, 1)>>)
    /\ i' = 0
    /\ pc' = "render"
    /\ UNCHANGED <<timedLyrics, duration, exportDuration, ffmpegLoaded, fs,
                   totalFrames, written, frame, alertCount, downloadCount,
                   muxCalls, failedStep, runs>>
    /\ UNCHANGED <<style, exportStyle, exportLyrics, frameStyle, muxArgs,
                   output>>
    /\ UNCHANGED previewVars
    /\ UNCHANGED <<srtContent, reentered>>
    /\ UNCHANGED appVars

\* the image does not decode: onload never fires, the awaited promise never
\* settles and handleExport never resumes
ImageError ==
    /\ pc = "imageLoad"
    /\ failedStep' = "image"
    /\ pc' = "stalled"
    /\ UNCHANGED <<timedLyrics, duration, exportDuration, ffmpegLoaded, fs,
                   totalFrames, i, written, frame, loadingState, alertCount,
                   downloadCount, muxCalls, runs>>
    /\ UNCHANGED <<style, exportStyle, exportLyrics, frameStyle, muxArgs,
                   output>>
    /\ UNCHANGED previewVars
    /\ UNCHANGED <<srtContent, reentered>>
    /\ UNCHANGED appVars

\* one iteration of the frame loop
RenderFrame ==
    /\ pc = "render"
    /\ i < totalFrames
    /\ frame' = DrawFrame(exportLyrics, i)
    /\ frameStyle' = StyleRead
    /\ fs' = [fs EXCEPT !.frames = @ \cup {i}]
    /\ written' = Append(written, i)
    /\ loadingState' = [loadingState EXCEPT
                            !.progress = <<FrameProgress(i, totalFrames)>>]
    /\ i' = NextFrame(i)
    /\ UNCHANGED <<timedLyrics, duration, pc, exportDuration, ffmpegLoaded,
                   totalFrames, alertCount, downloadCount, muxCalls,
                   failedStep, runs>>
    /\ UNCHANGED <<style, exportStyle, exportLyrics, muxArgs, output>>
    /\ UNCHANGED previewVars
    /\ UNCHANGED <<srtContent, reentered>>
    /\ UNCHANGED appVars

\* faulty variant: the frame that fails is left out and the loop goes on
RenderFailSkippingFrame ==
    /\ pc = "render"
    /\ i < totalFrames
    /\ failedStep' = "frame"
    /\ i' = NextFrame(i)
    /\ UNCHANGED <<timedLyrics, duration, pc, exportDuration, ffmpegLoaded, fs,
                   totalFrames, written, frame, loadingState, alertCount,
                   downloadCount, muxCalls, runs>>
    /\ UNCHANGED <<style, exportStyle, exportLyrics, frameStyle, muxArgs,
                   output>>
    /\ UNCHANGED previewVars
    /\ UNCHANGED <<srtContent, reentered>>
    /\ UNCHANGED appVars

\* drawing, encoding or writing frame i throws
RenderFail ==
    /\ pc = "render"
    /\ i < totalFrames
    /\ Catch("frame")
    /\ UNCHANGED <<timedLyrics, duration, exportDuration, ffmpegLoaded, fs,
                   totalFrames, i, written, frame, downloadCount, muxCalls,
                   runs>>
    /\ UNCHANGED <<style, exportStyle, exportLyrics, frameStyle, muxArgs,
                   output>>
    /\ UNCHANGED previewVars
    /\ UNCHANGED <<srtContent, reentered>>
    /\ UNCHANGED appVars

\* faulty variant: ffmpeg.run called from inside the loop as well
BeginMuxEarly ==
    /\ pc = "render"
    /\ loadingState' = Loading("mux", <<Rat(99, 1)>>)
    /\ muxCalls' = muxCalls + 1
    /\ pc' = "mux"
    /\ UNCHANGED <<timedLyrics, duration, exportDuration, ffmpegLoaded, fs,
                   totalFrames, i, written, frame, alertCount, downloadCount,
                   failedStep, runs>>
    /\ muxArgs' = MuxArgs
    /\ UNCHANGED <<style, exportStyle, exportLyrics, frameStyle, output>>
    /\ UNCHANGED previewVars
    /\ UNCHANGED <<srtContent, reentered>>
    /\ UNCHANGED appVars

\* the loop left: ffmpeg.run is called
BeginMux ==
    /\ pc = "render"
    /\ ~(i < totalFrames)
    /\ loadingState' = Loading("mux", <<Rat(99, 1)>>)
    /\ muxCalls' = muxCalls + 1
    /\ pc' = "mux"
    /\ UNCHANGED <<timedLyrics, duration, exportDuration, ffmpegLoaded, fs,
                   totalFrames, i, written, frame, alertCount, downloadCount,
                   failedStep, runs>>
    /\ muxArgs' = MuxArgs
    /\ UNCHANGED <<style, exportStyle, exportLyrics, frameStyle, output>>
    /\ UNCHANGED previewVars
    /\ UNCHANGED <<srtContent, reentered>>
    /\ UNCHANGED appVars

\* ffmpeg.run resolved: output.mp4 read and offered for download
MuxOk ==
    /\ pc = "mux"
    /\ fs' = [fs EXCEPT !.output = TRUE]
    /\ downloadCount' = downloadCount + 1
    /\ loadingState' = Null
    /\ pc' = "done"
    /\ UNCHANGED <<timedLyrics, duration, exportDuration, ffmpegLoaded,
                   totalFrames, i, written, frame, alertCount, muxCalls,
                   failedStep, runs>>
    /\ \E audioLength \in AudioLengths :
          output' = [present |-> TRUE, audio |-> audioLength,
                     duration |-> EncoderOutputDuration(muxArgs, fs.frames,
                                                        audioLength)]
    /\ UNCHANGED <<style, exportStyle, exportLyrics, frameStyle, muxArgs>>
    /\ UNCHANGED previewVars
    /\ UNCHANGED <<srtContent, reentered>>
    /\ UNCHANGED appVars

MuxFail ==
    /\ pc = "mux"
    /\ Catch("mux")
    /\ UNCHANGED <<timedLyrics, duration, exportDuration, ffmpegLoaded, fs,
                   totalFrames, i, written, frame, downloadCount, muxCalls,
                   runs>>
    /\ UNCHANGED <<style, exportStyle, exportLyrics, frameStyle, muxArgs,
                   output>>
    /\ UNCHANGED previewVars
    /\ UNCHANGED <<srtContent, reentered>>
    /\ UNCHANGED appVars

----------------------------------------------------------------------------
(* App: the form, SRT import, and the screens *)

\* a timestamp "HH:MM:SS,mmm" as its four number fields
SrtStamp(h, m, sec, ms) == [h |-> h, m |-> m, s |-> sec, ms |-> ms]

\* hours * 3600 + minutes * 60 + seconds + milliseconds / 1000, in ticks
srtTimeToSeconds(time) ==
    (time.h * 3600 + time.m * 60 + time.s) * TicksPerSecond
        + time.ms * TicksPerMs

\* the blocks of the file in file order; one event for each block that has a
\* time line, with the times as written
RECURSIVE parseSrtWithTimestamps(_)
parseSrtWithTimestamps(blocks) ==
    IF blocks = <<>> THEN <<>>
    ELSE LET block == Head(blocks)
             rest == parseSrtWithTimestamps(Tail(blocks))
         IN IF block.cue
            THEN <<Event(srtTimeToSeconds(block.start),
                         srtTimeToSeconds(block.end))>> \o rest
            ELSE rest

\* the lines that are neither empty nor numbers nor time lines, joined: ""
\* when no block has such a line
parseSrtTextOnly(blocks) ==
    IF \A k \in 1..Len(blocks) : blocks[k].text = <<>> THEN "" ELSE "lyrics"

\* the white space String.prototype.trim() removes, as far as files here
\* hold any
IsSpace(c) == c \in {CharLF, CharCR, CharSpace}

RECURSIVE TrimStart(_)
TrimStart(str) ==
    IF str # <<>> /\ IsSpace(Head(str)) THEN TrimStart(Tail(str)) ELSE str

RECURSIVE TrimEnd(_)
TrimEnd(str) ==
    IF str # <<>> /\ IsSpace(str[Len(str)])
    THEN TrimEnd(SubSeq(str, 1, Len(str) - 1))
    ELSE str

Trim(str) == TrimEnd(TrimStart(str))

\* .replace(/\r/g, '')
RemoveCR(str) == SelectSeq(str, LAMBDA c : c # CharCR)

\* the least number of a non-empty set of numbers
Least(ks) == CHOOSE k \in ks : \A other \in ks : k <= other

\* the positions from `from' on at which sep occurs in str
Occurrences(str, sep, from) ==
    {k \in from..(Len(str) - Len(sep) + 1) :
        SubSeq(str, k, k + Len(sep) - 1) = sep}

\* str.split(sep) for a non-empty string sep: the pieces between the
\* occurrences of sep found from left to right, from position `from' on
RECURSIVE SplitFrom(_, _, _)
SplitFrom(str, sep, from) ==
    LET found == Occurrences(str, sep, from)
    IN  IF found = {} THEN <<SubSeq(str, from, Len(str))>>
        ELSE <<SubSeq(str, from, Least(found) - 1)>>
                 \o SplitFrom(str, sep, Least(found) + Len(sep))

Split(str, sep) == SplitFrom(str, sep, 1)

\* str.includes(sub)
Includes(str, sub) ==
    \E k \in 1..(Len(str) - Len(sub) + 1) :
        SubSeq(str, k, k + Len(sub) - 1) = sub

\* lines.join('\n')
RECURSIVE JoinLines(_)
JoinLines(lines) ==
    IF lines = <<>> THEN <<>>
    ELSE IF Len(lines) = 1 THEN lines[1]
         ELSE lines[1] \o <<CharLF>> \o JoinLines(Tail(lines))

IsDigit(c) == c \in CharZero..(CharZero + 9)

\* the value of the digits str starts with, read from the left onto acc
RECURSIVE DigitsValue(_, _)
DigitsValue(str, acc) ==
    IF str # <<>> /\ IsDigit(Head(str))
    THEN DigitsValue(Tail(str), 10 * acc + (Head(str) - CharZero))
    ELSE acc

\* parseInt(str, 10) of a field that starts with a digit, as every field of
\* a stamp written by secondsToSrtTime does (without a digit the code has NaN)
parseInt(str) == DigitsValue(TrimStart(str), 0)

\* time.split(/[:,]/) and the parseInt of the first four parts
RECURSIVE SplitColonComma(_, _)
SplitColonComma(str, from) ==
    LET found == {k \in from..Len(str) : str[k] \in {CharColon, CharComma}}
    IN  IF found = {} THEN <<SubSeq(str, from, Len(str))>>
        ELSE <<SubSeq(str, from, Least(found) - 1)>>
                 \o SplitColonComma(str, Least(found) + 1)

SrtTimeParts(time) ==
    LET parts == SplitColonComma(time, 1)
        part(k) == IF k <= Len(parts) THEN parts[k] ELSE <<>>
    IN SrtStamp(parseInt(part(1)), parseInt(part(2)), parseInt(part(3)),
                parseInt(part(4)))

\* one block of the file as parseSrtWithTimestamps reads it: a cue when it
\* has three lines or more and its second line holds an arrow; the text is
\* the lines from the third on
SrtFileBlock(block) ==
    LET lines == Split(block, <<CharLF>>)
        stamps == Split(lines[2], Arrow)
        cue == /\ Len(lines) >= 3
               /\ Includes(lines[2], <<CharMinus, CharMinus, CharGreater>>)
               /\ Len(stamps) >= 2
    IN IF cue
       THEN [cue |-> TRUE, start |-> SrtTimeParts(stamps[1]),
             end |-> SrtTimeParts(stamps[2]),
             text |-> JoinLines(SubSeq(lines, 3, Len(lines)))]
       ELSE [cue |-> FALSE, start |-> SrtStamp(0, 0, 0, 0),
             end |-> SrtStamp(0, 0, 0, 0), text |-> <<>>]

\* srtContent.trim().replace(/\r/g, '').split('\n\n'), block by block
SrtFileBlocks(content) ==
    LET blocks == Split(RemoveCR(Trim(content)), <<CharLF, CharLF>>)
    IN [k \in 1..Len(blocks) |-> SrtFileBlock(blocks[k])]

\* the text pushed with each event, in the order of the events
RECURSIVE parseSrtTexts(_)
parseSrtTexts(blocks) ==
    IF blocks = <<>> THEN <<>>
    ELSE IF Head(blocks).cue
         THEN <<Head(blocks).text>> \o parseSrtTexts(Tail(blocks))
         ELSE parseSrtTexts(Tail(blocks))

\* null is ""
convertGoogleDriveLink(url) == IF url = "drive" THEN "download" ELSE ""

audioUrl ==
    IF audioInputMethod = "upload" /\ audioFile THEN "blob"
    ELSE IF audioInputMethod = "link" /\ audioUrlInput # ""
         THEN convertGoogleDriveLink(audioUrlInput)
         ELSE ""

isFormValid ==
    LET isAudioReady == IF audioInputMethod = "upload"
                        THEN audioFile
                        ELSE convertGoogleDriveLink(audioUrlInput) # ""
    IN  lyricsText # "" /\ isAudioReady /\ songTitle # "" /\ artistName # ""

\* a VideoPlayer is mounted on the event list lyrics: its state is the
\* initial one and its effect has resolved the index at time 0
MountVideoPlayer(lyrics) ==
    /\ currentTime' = 0
    /\ currentLyricIndex' = ResolveCurrentLyricIndex(lyrics, 0)
    /\ UNCHANGED <<duration, frame, style, exportVars>>

\* the FeedbackModal covers the screen while a message is set
ScreenFree == feedbackMessage = ""

ChooseLyricVideo ==
    /\ appState = "CHOOSER"
    /\ ScreenFree
    /\ appState' = "FORM"
    /\ UNCHANGED <<timedLyrics, lyricsText, formVars, isAiGeneratorUnlocked,
                   feedbackMessage, srtReading>>
    /\ UNCHANGED playerVars

ChooseGenerator(screen) ==
    /\ appState = "CHOOSER"
    /\ ScreenFree
    /\ isAiGeneratorUnlocked
    /\ appState' = screen
    /\ UNCHANGED <<timedLyrics, lyricsText, formVars, isAiGeneratorUnlocked,
                   feedbackMessage, srtReading>>
    /\ UNCHANGED playerVars

\* faulty variant: any password that was not cancelled unlocks
handleUnlockWithAnyPassword(password) ==
    /\ appState = "CHOOSER"
    /\ ScreenFree
    /\ ~isAiGeneratorUnlocked
    /\ isAiGeneratorUnlocked' = (password # "cancel")
    /\ UNCHANGED <<timedLyrics, appState, lyricsText, formVars,
                   feedbackMessage, srtReading>>
    /\ UNCHANGED playerVars

\* the lock button is rendered while the generators are locked; a wrong
\* password or a cancelled prompt changes nothing
handleUnlockAiGenerator(password) ==
    /\ appState = "CHOOSER"
    /\ ScreenFree
    /\ ~isAiGeneratorUnlocked
    /\ isAiGeneratorUnlocked' = (password = "0000")
    /\ UNCHANGED <<timedLyrics, appState, lyricsText, formVars,
                   feedbackMessage, srtReading>>
    /\ UNCHANGED playerVars

handleBackToChooser ==
    /\ appState \in {"FORM", "IMAGE_GENERATOR", "VIDEO_GENERATOR"}
    /\ ScreenFree
    /\ appState' = "CHOOSER"
    /\ UNCHANGED <<timedLyrics, lyricsText, formVars, isAiGeneratorUnlocked,
                   feedbackMessage, srtReading>>
    /\ UNCHANGED playerVars

SetSongTitle(v) ==
    /\ appState = "FORM"
    /\ ScreenFree
    /\ songTitle' = v
    /\ UNCHANGED <<timedLyrics, appState, lyricsText, artistName, audioFile,
                   audioInputMethod, audioUrlInput, isAiGeneratorUnlocked,
                   feedbackMessage, srtReading>>
    /\ UNCHANGED playerVars

SetArtistName(v) ==
    /\ appState = "FORM"
    /\ ScreenFree
    /\ artistName' = v
    /\ UNCHANGED <<timedLyrics, appState, lyricsText, songTitle, audioFile,
                   audioInputMethod, audioUrlInput, isAiGeneratorUnlocked,
                   feedbackMessage, srtReading>>
    /\ UNCHANGED playerVars

SetAudioInputMethod(method) ==
    /\ appState = "FORM"
    /\ ScreenFree
    /\ audioInputMethod' = method
    /\ UNCHANGED <<timedLyrics, appState, lyricsText, songTitle, artistName,
                   audioFile, audioUrlInput, isAiGeneratorUnlocked,
                   feedbackMessage, srtReading>>
    /\ UNCHANGED playerVars

\* the file input is rendered on the upload tab
SetAudioFile(chosen) ==
    /\ appState = "FORM"
    /\ ScreenFree
    /\ audioInputMethod = "upload"
    /\ audioFile' = chosen
    /\ UNCHANGED <<timedLyrics, appState, lyricsText, songTitle, artistName,
                   audioInputMethod, audioUrlInput, isAiGeneratorUnlocked,
                   feedbackMessage, srtReading>>
    /\ UNCHANGED playerVars

\* the url input is rendered on the link tab
SetAudioUrlInput(url) ==
    /\ appState = "FORM"
    /\ ScreenFree
    /\ audioInputMethod = "link"
    /\ audioUrlInput' = url
    /\ UNCHANGED <<timedLyrics, appState, lyricsText, songTitle, artistName,
                   audioFile, audioInputMethod, isAiGeneratorUnlocked,
                   feedbackMessage, srtReading>>
    /\ UNCHANGED playerVars

\* editing the lyrics of a timed song asks for confirmation and clears the
\* times; a cancelled edit changes nothing
\* faulty variant: the text is taken without asking and the timing is kept
handleLyricsTextChangeKeepingTiming(newText, confirmed) ==
    /\ appState = "FORM"
    /\ ScreenFree
    /\ lyricsText' = newText
    /\ UNCHANGED <<timedLyrics, appState, formVars, isAiGeneratorUnlocked,
                   feedbackMessage, srtReading>>
    /\ UNCHANGED playerVars

handleLyricsTextChange(newText, confirmed) ==
    /\ appState = "FORM"
    /\ ScreenFree
    /\ IF Len(timedLyrics) > 0 /\ newText # lyricsText
       THEN IF confirmed
            THEN lyricsText' = newText /\ timedLyrics' = <<>>
            ELSE UNCHANGED <<lyricsText, timedLyrics>>
       ELSE lyricsText' = newText /\ UNCHANGED timedLyrics
    /\ UNCHANGED <<appState, formVars, isAiGeneratorUnlocked, feedbackMessage,
                   srtReading>>
    /\ UNCHANGED playerVars

\* a file is chosen: over an existing timing the user is asked first; the
\* file is then read in the background
handleSrtFileChange(confirmed) ==
    /\ appState = "FORM"
    /\ ScreenFree
    /\ srtReading' = (srtReading \/ Len(timedLyrics) = 0 \/ confirmed)
    /\ UNCHANGED <<timedLyrics, appState, lyricsText, formVars,
                   isAiGeneratorUnlocked, feedbackMessage>>
    /\ UNCHANGED playerVars

\* reader.onload with the file's blocks
SrtReaderOnload(blocks) ==
    /\ srtReading
    /\ srtReading' = FALSE
    /\ LET parsedTimedLyrics == parseSrtWithTimestamps(blocks)
       IN  IF blocks = <<>>
           THEN UNCHANGED <<timedLyrics, lyricsText>>
           ELSE IF Len(parsedTimedLyrics) > 0
           THEN timedLyrics' = parsedTimedLyrics /\ lyricsText' = "srt lyrics"
           ELSE lyricsText' = parseSrtTextOnly(blocks) /\ timedLyrics' = <<>>
    /\ UNCHANGED <<appState, formVars, isAiGeneratorUnlocked, feedbackMessage>>
    /\ IF appState = "PREVIEW"
       THEN /\ currentLyricIndex' =
                   ResolveCurrentLyricIndex(timedLyrics', currentTime)
            /\ UNCHANGED <<currentTime, duration, frame, style,
                           exportVars>>
       ELSE UNCHANGED playerVars

\* reader.onerror
SrtReaderOnerror ==
    /\ srtReading
    /\ srtReading' = FALSE
    /\ UNCHANGED <<timedLyrics, appState, lyricsText, formVars,
                   isAiGeneratorUnlocked, feedbackMessage>>
    /\ UNCHANGED playerVars

\* the submit button is disabled unless isFormValid
handleStartTiming ==
    /\ appState = "FORM"
    /\ ScreenFree
    /\ isFormValid
    /\ lyricsText # "" /\ audioUrl # "" /\ songTitle # "" /\ artistName # ""
    /\ IF Len(timedLyrics) > 0
       THEN appState' = "PREVIEW" /\ MountVideoPlayer(timedLyrics)
       ELSE appState' = "TIMING" /\ UNCHANGED playerVars
    /\ UNCHANGED <<timedLyrics, lyricsText, formVars, isAiGeneratorUnlocked,
                   feedbackMessage, srtReading>>

\* LyricsTiming reports the events the user has timed
handleTimingComplete(lyrics) ==
    /\ appState = "TIMING"
    /\ ScreenFree
    /\ timedLyrics' = lyrics
    /\ feedbackMessage' = "feedback"
    /\ UNCHANGED <<appState, lyricsText, formVars, isAiGeneratorUnlocked,
                   srtReading>>
    /\ UNCHANGED playerVars

handleFeedbackClose ==
    /\ feedbackMessage # ""
    /\ feedbackMessage' = ""
    /\ appState' = "PREVIEW"
    /\ MountVideoPlayer(timedLyrics)
    /\ UNCHANGED <<timedLyrics, lyricsText, formVars, isAiGeneratorUnlocked,
                   srtReading>>

\* onBack of LyricsTiming, and of VideoPlayer over a timed song
handleBackToForm ==
    /\ \/ appState = "TIMING"
       \/ appState = "PREVIEW" /\ Len(timedLyrics) > 0
    /\ ScreenFree
    /\ appState' = "FORM"
    /\ UNCHANGED <<timedLyrics, lyricsText, formVars, isAiGeneratorUnlocked,
                   feedbackMessage, srtReading>>
    /\ UNCHANGED playerVars

\* onBack of VideoPlayer over an empty event list
handleBackToTiming ==
    /\ appState = "PREVIEW" /\ Len(timedLyrics) = 0
    /\ ScreenFree
    /\ appState' = "TIMING"
    /\ UNCHANGED <<timedLyrics, lyricsText, formVars, isAiGeneratorUnlocked,
                   feedbackMessage, srtReading>>
    /\ UNCHANGED playerVars

\* App with the VideoPlayer on screen over a filled form
InitAppPreview ==
    /\ appState = "PREVIEW"
    /\ lyricsText = "lyrics"
    /\ songTitle = "text"
    /\ artistName = "text"
    /\ audioFile = TRUE
    /\ audioInputMethod = "upload"
    /\ audioUrlInput = ""
    /\ isAiGeneratorUnlocked = FALSE
    /\ feedbackMessage = ""
    /\ srtReading = FALSE

----------------------------------------------------------------------------
(* The export pipeline *)

InitExportVars ==
    /\ pc = "idle"
    /\ exportDuration = 0
    /\ ffmpegLoaded = FALSE
    /\ fs = EmptyFS
    /\ totalFrames = 0
    /\ i = 0
    /\ written = <<>>
    /\ loadingState = Null
    /\ alertCount = 0
    /\ downloadCount = 0
    /\ muxCalls = 0
    /\ failedStep = "none"
    /\ runs = 0

Init ==
    /\ timedLyrics \in ExportLyrics
    /\ duration = 0
    /\ currentTime = 0
    /\ currentLyricIndex = ResolveCurrentLyricIndex(timedLyrics, 0)
    /\ frame = NoFrame
    /\ InitExportVars
    /\ InitAppPreview
    /\ InitRunVars

Next ==
    \/ \E d \in ExportDurations : LoadedMetadata(d)
    \/ StartExport
    \/ LoadOk
    \/ LoadFail
    \/ FetchAudioOk
    \/ FetchImageOk
    \/ FetchFail
    \/ ImageLoaded
    \/ ImageError
    \/ RenderFrame
    \/ RenderFail
    \/ BeginMux
    \/ MuxOk
    \/ MuxFail

Spec == Init /\ [][Next]_vars

----------------------------------------------------------------------------
(* Single frames and preview samples, on richer inputs *)

\* totalFrames of an export of the whole audio
SampleSetup ==
    /\ pc = "idle"
    /\ totalFrames' = TotalFrames(exportDuration)
    /\ pc' = "render"
    /\ UNCHANGED <<timedLyrics, duration, exportDuration, ffmpegLoaded, fs, i,
                   written, frame, loadingState, alertCount, downloadCount,
                   muxCalls, failedStep, runs>>
    /\ UNCHANGED <<style, exportStyle, exportLyrics, frameStyle, muxArgs,
                   output>>
    /\ UNCHANGED previewVars
    /\ UNCHANGED <<srtContent, reentered>>
    /\ UNCHANGED appVars

\* the loop body for frame index n, on its own
FrameSample(n) ==
    /\ pc = "render"
    /\ n < totalFrames
    /\ frame' = DrawFrame(timedLyrics, n)
    /\ UNCHANGED <<timedLyrics, duration, style>>
    /\ UNCHANGED previewVars
    /\ UNCHANGED exportVars
    /\ UNCHANGED appVars

InitSample ==
    /\ \E inp \in SampleInputs :
          /\ timedLyrics = inp.lyrics
          /\ duration = inp.duration
          /\ exportDuration = inp.duration
    /\ currentTime = 0
    /\ currentLyricIndex = ResolveCurrentLyricIndex(timedLyrics, 0)
    /\ frame = NoFrame
    /\ pc = "idle"
    /\ ffmpegLoaded = FALSE
    /\ fs = EmptyFS
    /\ totalFrames = 0
    /\ i = 0
    /\ written = <<>>
    /\ loadingState = Null
    /\ alertCount = 0
    /\ downloadCount = 0
    /\ muxCalls = 0
    /\ failedStep = "none"
    /\ runs = 0
    /\ InitAppPreview
    /\ InitRunVars

NextSample ==
    \/ \E t \in PreviewTimes : TimeUpdate(t)
    \/ \E t \in PreviewTimes : HandleTimelineChange(t)
    \/ SampleSetup
    \/ \E n \in 0..(TotalFrames(exportDuration) - 1) : FrameSample(n)

SpecSample == InitSample /\ [][NextSample]_vars

----------------------------------------------------------------------------
(* One export of a long audio *)

\* the long audio lasts MaxLongFrames frame periods
MaxLongFrames == 120

LongDurations == {MaxLongFrames * TicksPerFrame}

\* the VideoPlayer over a song without events; the export that starts is the
\* last one followed
InitLong ==
    /\ timedLyrics = <<>>
    /\ duration = 0
    /\ currentTime = 0
    /\ currentLyricIndex = -1
    /\ frame = NoFrame
    /\ pc = "idle"
    /\ exportDuration = 0
    /\ ffmpegLoaded = FALSE
    /\ fs = EmptyFS
    /\ totalFrames = 0
    /\ i = 0
    /\ written = <<>>
    /\ loadingState = Null
    /\ alertCount = 0
    /\ downloadCount = 0
    /\ muxCalls = 0
    /\ failedStep = "none"
    /\ runs = MaxRuns - 1
    /\ InitAppPreview
    /\ InitRunVars

NextLong ==
    \/ \E d \in LongDurations : LoadedMetadata(d)
    \/ StartExport
    \/ LoadOk
    \/ LoadFail
    \/ FetchAudioOk
    \/ FetchImageOk
    \/ FetchFail
    \/ ImageLoaded
    \/ ImageError
    \/ RenderFrame
    \/ RenderFail
    \/ BeginMux
    \/ MuxOk
    \/ MuxFail

SpecLong == InitLong /\ [][NextLong]_vars

----------------------------------------------------------------------------
(* The frames of a very long audio, one after the other *)

\* the very long audio lasts MaxNameFrames frame periods
MaxNameFrames == 10002

NameDurations == {MaxNameFrames * TicksPerFrame}

\* the loop body for the frame after the one drawn last, on its own
FrameSampleNext ==
    \E n \in {NextFrame(frame.index)} : FrameSample(n)

InitNames ==
    /\ timedLyrics = <<>>
    /\ duration \in NameDurations
    /\ exportDuration = duration
    /\ currentTime = 0
    /\ currentLyricIndex = -1
    /\ frame = NoFrame
    /\ pc = "idle"
    /\ ffmpegLoaded = FALSE
    /\ fs = EmptyFS
    /\ totalFrames = 0
    /\ i = 0
    /\ written = <<>>
    /\ loadingState = Null
    /\ alertCount = 0
    /\ downloadCount = 0
    /\ muxCalls = 0
    /\ failedStep = "none"
    /\ runs = 0
    /\ InitAppPreview
    /\ InitRunVars

NextNames ==
    \/ SampleSetup
    \/ FrameSampleNext

SpecNames == InitNames /\ [][NextNames]_vars

----------------------------------------------------------------------------
(* App from the chooser screen on *)

\* the longest SRT file of the inputs, in blocks
MaxSrtBlocks == 2

\* 00:00:00,000 and 00:01:01,500
SrtStamps == {SrtStamp(0, 0, 0, 0), SrtStamp(0, 1, 1, 500)}

\* a block with a time line and a text (a cue) from one stamp to another,
\* either way round; a block of text without a time line; a block of a number
\* and a time line without any text, which is no cue
SrtBlocks ==
    {block \in {[cue |-> TRUE, start |-> a, end |-> b, text |-> <<97>>] :
                   a, b \in SrtStamps} : block.start # block.end}
        \cup {[cue |-> FALSE, start |-> a, end |-> a, text |-> line] :
                 a \in {SrtStamp(0, 0, 0, 0)}, line \in {<<97>>, <<>>}}

SrtFiles == UNION {[1..n -> SrtBlocks] : n \in 0..MaxSrtBlocks}

FieldTexts == {"", "text"}

LyricsTexts == {"", "lyrics"}

UrlTexts == {"", "drive", "other"}

Passwords == {"0000", "1234", "cancel"}

\* the LyricEvent invariant of the timeline
AtMostOneActive(lyrics) ==
    \A a, b \in 1..Len(lyrics) :
        a # b => \/ lyrics[a].endTime < lyrics[b].startTime
                 \/ lyrics[b].endTime < lyrics[a].startTime

LyricEventInvariant(lyrics) ==
    /\ \A a, b \in 1..Len(lyrics) :
          a < b => lyrics[a].startTime <= lyrics[b].startTime
    /\ \A a \in 1..Len(lyrics) :
          lyrics[a].endTime > lyrics[a].startTime /\ lyrics[a].startTime >= 0
    /\ AtMostOneActive(lyrics)

\* what the timing screen hands over
TimedByUser == {l \in TimelineLists : LyricEventInvariant(l)}

InitApp ==
    /\ timedLyrics = <<>>
    /\ duration = 0
    /\ currentTime = 0
    /\ currentLyricIndex = -1
    /\ frame = NoFrame
    /\ InitExportVars
    /\ appState = "CHOOSER"
    /\ lyricsText = ""
    /\ songTitle = ""
    /\ artistName = ""
    /\ audioFile = FALSE
    /\ audioInputMethod = "upload"
    /\ audioUrlInput = ""
    /\ isAiGeneratorUnlocked = FALSE
    /\ feedbackMessage = ""
    /\ srtReading = FALSE
    /\ InitRunVars

NextApp ==
    \/ ChooseLyricVideo
    \/ \E screen \in {"IMAGE_GENERATOR", "VIDEO_GENERATOR"} :
          ChooseGenerator(screen)
    \/ \E password \in Passwords : handleUnlockAiGenerator(password)
    \/ handleBackToChooser
    \/ \E v \in FieldTexts : SetSongTitle(v)
    \/ \E v \in FieldTexts : SetArtistName(v)
    \/ \E method \in {"upload", "link"} : SetAudioInputMethod(method)
    \/ \E chosen \in BOOLEAN : SetAudioFile(chosen)
    \/ \E url \in UrlTexts : SetAudioUrlInput(url)
    \/ \E newText \in LyricsTexts, confirmed \in BOOLEAN :
          handleLyricsTextChange(newText, confirmed)
    \/ \E confirmed \in BOOLEAN : handleSrtFileChange(confirmed)
    \/ \E blocks \in SrtFiles : SrtReaderOnload(blocks)
    \/ SrtReaderOnerror
    \/ handleStartTiming
    \/ \E lyrics \in TimedByUser : handleTimingComplete(lyrics)
    \/ handleFeedbackClose
    \/ handleBackToForm
    \/ handleBackToTiming

SpecApp == InitApp /\ [][NextApp]_vars

----------------------------------------------------------------------------
(* One export while the style controls are used and an SRT read ends *)

\* the VideoPlayer over a filled form; an SRT file chosen on the form may
\* still be being read; the export that starts is the last one followed
InitStyle ==
    /\ timedLyrics \in ExportLyrics
    /\ duration = 0
    /\ currentTime = 0
    /\ currentLyricIndex = ResolveCurrentLyricIndex(timedLyrics, 0)
    /\ frame = NoFrame
    /\ pc = "idle"
    /\ exportDuration = 0
    /\ ffmpegLoaded = FALSE
    /\ fs = EmptyFS
    /\ totalFrames = 0
    /\ i = 0
    /\ written = <<>>
    /\ loadingState = Null
    /\ alertCount = 0
    /\ downloadCount = 0
    /\ muxCalls = 0
    /\ failedStep = "none"
    /\ runs = MaxRuns - 1
    /\ appState = "PREVIEW"
    /\ lyricsText = "lyrics"
    /\ songTitle = "text"
    /\ artistName = "text"
    /\ audioFile = TRUE
    /\ audioInputMethod = "upload"
    /\ audioUrlInput = ""
    /\ isAiGeneratorUnlocked = FALSE
    /\ feedbackMessage = ""
    /\ srtReading \in BOOLEAN
    /\ InitRunVars

NextStyle ==
    \/ \E d \in ExportDurations : LoadedMetadata(d)
    \/ \E value \in Resolutions : setResolution(value)
    \/ \E value \in LyricPositions : setLyricPosition(value)
    \/ \E blocks \in SrtFiles : SrtReaderOnload(blocks)
    \/ StartExport
    \/ LoadOk
    \/ LoadFail
    \/ FetchAudioOk
    \/ FetchImageOk
    \/ FetchFail
    \/ ImageLoaded
    \/ ImageError
    \/ RenderFrame
    \/ RenderFail
    \/ BeginMux
    \/ MuxOk
    \/ MuxFail

SpecStyle == InitStyle /\ [][NextStyle]_vars

----------------------------------------------------------------------------
(* The preview render by render: a state change first, its effect after *)

\* the timeupdate listener: setCurrentTime; the component renders with the
\* new time and the index it had
UpdateRender(t) ==
    /\ currentTime' = t
    /\ UNCHANGED <<timedLyrics, duration, frame, style, currentLyricIndex>>
    /\ UNCHANGED exportVars
    /\ UNCHANGED appVars

\* handleTimelineChange: setCurrentTime; the component renders with the new
\* time and the index it had
TimelineChangeRender(t) ==
    /\ currentTime' = t
    /\ UNCHANGED <<timedLyrics, duration, frame, style, currentLyricIndex>>
    /\ UNCHANGED exportVars
    /\ UNCHANGED appVars

\* the effect on [currentTime, timedLyrics], run after that render:
\* setCurrentLyricIndex, and the component renders again
CurrentLyricIndexEffect ==
    /\ currentLyricIndex # ResolveCurrentLyricIndex(timedLyrics, currentTime)
    /\ currentLyricIndex' = ResolveCurrentLyricIndex(timedLyrics, currentTime)
    /\ UNCHANGED <<timedLyrics, duration, frame, style, currentTime>>
    /\ UNCHANGED exportVars
    /\ UNCHANGED appVars

NextRender ==
    \/ \E t \in PreviewTimes : UpdateRender(t)
    \/ \E t \in PreviewTimes : TimelineChangeRender(t)
    \/ CurrentLyricIndexEffect

SpecRender == InitSample /\ [][NextRender]_vars

----------------------------------------------------------------------------
(* The SRT export on its own: event lists with texts, exported once *)

MaxSrtEvents == 2

\* start times 0 s, 0.99967 s and 1 s; end times 2.5 s and 1 h 1 min 1.5 s
SrtStartTimes == {0, TicksPerSecond - 1, TicksPerSecond}
SrtEndTimes ==
    {5 * (TicksPerSecond \div 2), 3661 * TicksPerSecond + 500 * TicksPerMs}

\* "Hello"
Hello == <<72, 101, 108, 108, 111>>

\* two lines, "a\nb"
TwoLines == <<97, CharLF, 98>>

\* "Hello", the two lines, and "a " with a space at its end
SrtTexts == {Hello, TwoLines, <<97, CharSpace>>}

TextEvent(text, s, e) == [text |-> text, startTime |-> s, endTime |-> e]

SrtEvents ==
    {TextEvent(text, s, e) : text \in SrtTexts, s \in SrtStartTimes,
                             e \in SrtEndTimes}

SrtLyricLists == UNION {[1..n -> SrtEvents] : n \in 0..MaxSrtEvents}

\* '1\r\n00:00:01,000 --> 00:00:02,500\r\nHello'
HelloSrt ==
    <<49, 13, 10, 48, 48, 58, 48, 48, 58, 48, 49, 44, 48, 48, 48, 32, 45,
      45, 62, 32, 48, 48, 58, 48, 48, 58, 48, 50, 44, 53, 48, 48, 13, 10,
      72, 101, 108, 108, 111>>

InitSrt ==
    /\ timedLyrics \in SrtLyricLists
    /\ duration = 0
    /\ currentTime = 0
    /\ currentLyricIndex = ResolveCurrentLyricIndex(timedLyrics, 0)
    /\ frame = NoFrame
    /\ InitExportVars
    /\ InitAppPreview
    /\ InitRunVars

NextSrt == handleExportSrt

SpecSrt == InitSrt /\ [][NextSrt]_vars

----------------------------------------------------------------------------
(* The export with the button live during a run *)

NextReentry ==
    \/ Next
    \/ StartExportWhileRunning

SpecReentry == Init /\ [][NextReentry]_vars

----------------------------------------------------------------------------
(* Properties *)

Sorted(lyrics) ==
    \A a, b \in 1..Len(lyrics) :
        a < b => lyrics[a].startTime <= lyrics[b].startTime

\* each event ends before every later one starts, so at most one event is
\* active (startTime <= t <= endTime) at any t
NonOverlapping(lyrics) ==
    \A a, b \in 1..Len(lyrics) :
        a < b => lyrics[a].endTime < lyrics[b].startTime

NonNegativeSpans(lyrics) ==
    \A a \in 1..Len(lyrics) : lyrics[a].startTime <= lyrics[a].endTime

\* t lies strictly between the end of an event and the start of the next
InGap(lyrics, t) ==
    \E a \in 1..(Len(lyrics) - 1) :
        lyrics[a].endTime < t /\ t < lyrics[a + 1].startTime

\* sample times at half-frame steps, on and off the frame grid
HalfFrameTimes ==
    {(k * TicksPerFrame) \div 2 : k \in 0..(2 * MaxPreviewFrame + 2)}

FrameDrawn == frame.index >= 0

LyricDrawn == FrameDrawn /\ frame.lyricIndex > -1

DrawnLyric == timedLyrics[frame.lyricIndex + 1]

DrawnDuration == DrawnLyric.endTime - DrawnLyric.startTime

DrawnElapsed == frame.frameTime - DrawnLyric.startTime

One == Rat(1, 1)

Zero == Rat(0, 1)

\* C1: on a sorted, non-overlapping event list the preview's backward scan
\* and the export's forward scan resolve the same index (or both none) for
\* the same sample time: for the frame drawn last when the preview sampled
\* its time, and for every sample time at half-frame steps.
C1_ResolutionAgreement ==
    (Sorted(timedLyrics) /\ NonOverlapping(timedLyrics)) =>
        /\ (FrameDrawn /\ frame.frameTime = currentTime)
              => frame.lyricIndex = currentLyricIndex
        /\ \A t \in HalfFrameTimes :
              ResolveCurrentLyricIndex(timedLyrics, t)
                  = FrameLyricIndex(timedLyrics, t)

C1_Witness ==
    /\ Sorted(timedLyrics) /\ NonOverlapping(timedLyrics)
    /\ Len(timedLyrics) >= 2
    /\ FrameDrawn
    /\ frame.frameTime = currentTime
    /\ currentTime > 0
    /\ frame.lyricIndex = 1
    /\ currentLyricIndex = 1

\* C2: the frames an export run has written are the indices 0, 1, 2, ... in
\* this order, each once, frame n drawn for the time n / 30 s; when the
\* loop is left all of 0..totalFrames-1 have been written.
C2_FramesInOrder ==
    /\ \A k \in 1..Len(written) : written[k] = k - 1
    /\ Len(written) > 0 =>
          /\ frame.index = written[Len(written)]
          /\ frame.frameTime * frameRate = frame.index * TicksPerSecond
    /\ pc \in {"mux", "done"} => Len(written) = totalFrames

C2_Witness ==
    /\ pc = "done"
    /\ totalFrames >= 3
    /\ written = [k \in 1..totalFrames |-> k - 1]

\* C3: ffmpeg.run is called at most once in a run, and only when audio.mp3
\* and every frame 0..totalFrames-1 are in the encoder's file system; while
\* a frame is still to be written it has not been called.
C3_MuxOnceAfterAllFrames ==
    /\ muxCalls <= 1
    /\ muxCalls = 1 =>
          /\ fs.audio
          /\ Len(written) = totalFrames
          /\ \A n \in 0..(totalFrames - 1) : n \in fs.frames
    /\ (pc = "render" /\ Len(written) < totalFrames) => muxCalls = 0

C3_Witness ==
    /\ pc = "mux"
    /\ muxCalls = 1
    /\ totalFrames >= 3
    /\ Len(written) = totalFrames

\* C4: a run in which a step has failed has raised exactly one alert, has
\* cleared the loader and has offered no download; a download comes only
\* from a run whose mux step succeeded.
C4_FailureNotifiedOnce ==
    /\ failedStep # "none" =>
          /\ alertCount = 1
          /\ ~loadingState.shown
          /\ downloadCount = 0
    /\ downloadCount > 0 =>
          /\ downloadCount = 1
          /\ pc = "done"
          /\ muxCalls = 1

\* C5: totalFrames is the floor of duration * 30: totalFrames / 30 s is at
\* most the duration and (totalFrames + 1) / 30 s exceeds it; 10.03 s give
\* 300 frames; only indices below totalFrames are drawn.
C5_FrameCount ==
    pc = "render" =>
        /\ totalFrames * TicksPerSecond <= exportDuration * frameRate
        /\ exportDuration * frameRate < (totalFrames + 1) * TicksPerSecond
        /\ exportDuration = 10030 * TicksPerMs => totalFrames = 300
        /\ frame.index < totalFrames

C5_Witness ==
    /\ pc = "render"
    /\ exportDuration = 10030 * TicksPerMs
    /\ totalFrames = 300
    /\ frame.index = 299

\* C6: for an event longer than 0.8 s the envelope has three phases:
\* elapsed < 0.4: opacity = elapsed / 0.4, offset = 10 (1 - opacity);
\* 0.4 <= elapsed <= dur - 0.4: opacity = 1, offset = 0;
\* elapsed > dur - 0.4: opacity = (dur - elapsed) / 0.4,
\* offset = -10 (1 - opacity).  So opacity is 0 at elapsed 0 and dur, and
\* opacity 1, offset 0 at dur / 2.
C6_LongEnvelope ==
    (LyricDrawn /\ DrawnDuration > (8 * TicksPerSecond) \div 10) =>
        LET F == (4 * TicksPerSecond) \div 10
            dur == DrawnDuration
            elapsed == DrawnElapsed
        IN  /\ frame.opacity.den > 0 /\ frame.yOffset.den > 0
            /\ elapsed < F =>
                  /\ RatEq(frame.opacity, Rat(elapsed, F))
                  /\ RatEq(frame.yOffset, Rat(10 * (F - elapsed), F))
            /\ (F <= elapsed /\ elapsed <= dur - F) =>
                  /\ RatEq(frame.opacity, One)
                  /\ RatEq(frame.yOffset, Zero)
            /\ elapsed > dur - F =>
                  /\ RatEq(frame.opacity, Rat(dur - elapsed, F))
                  /\ RatEq(frame.yOffset, Rat(-10 * (F - (dur - elapsed)), F))
            /\ (elapsed = 0 \/ elapsed = dur) => RatEq(frame.opacity, Zero)
            /\ 2 * elapsed = dur =>
                  RatEq(frame.opacity, One) /\ RatEq(frame.yOffset, Zero)

C6_Witness ==
    /\ LyricDrawn
    /\ DrawnDuration > (8 * TicksPerSecond) \div 10
    /\ DrawnElapsed > DrawnDuration - (4 * TicksPerSecond) \div 10
    /\ DrawnElapsed < DrawnDuration
    /\ RatLt(Zero, frame.opacity) /\ RatLt(frame.opacity, One)
    /\ RatLt(frame.yOffset, Zero)

\* C7: for an event with 0 < dur <= 0.8 s the envelope is the triangle
\* opacity = min(elapsed, dur - elapsed) / (dur / 2) with no offset: 1 at
\* the midpoint, and the same at elapsed and at dur - elapsed.
C7_ShortEnvelopeSymmetric ==
    (LyricDrawn /\ DrawnDuration > 0
        /\ DrawnDuration <= (8 * TicksPerSecond) \div 10) =>
        LET dur == DrawnDuration
            elapsed == DrawnElapsed
            mirrored == Envelope(DrawnLyric,
                                 DrawnLyric.startTime + (dur - elapsed))
            nearer == IF elapsed < dur - elapsed THEN elapsed
                      ELSE dur - elapsed
        IN  /\ frame.opacity.den > 0
            /\ RatEq(frame.yOffset, Zero)
            /\ RatEq(frame.opacity, Rat(2 * nearer, dur))
            /\ RatEq(frame.opacity, mirrored.opacity)
            /\ 2 * elapsed = dur => RatEq(frame.opacity, One)

C7_Witness ==
    /\ LyricDrawn
    /\ DrawnDuration > 0
    /\ DrawnDuration <= (8 * TicksPerSecond) \div 10
    /\ 2 * DrawnElapsed > DrawnDuration
    /\ DrawnElapsed < DrawnDuration
    /\ RatLt(Zero, frame.opacity) /\ RatLt(frame.opacity, One)

\* C8: for an active event with endTime = startTime the envelope divides by
\* no zero and is opacity 1, offset 0.
C8_ZeroDurationEnvelope ==
    (LyricDrawn /\ DrawnDuration = 0) =>
        /\ frame.opacity.den # 0
        /\ RatEq(frame.opacity, One)
        /\ RatEq(frame.yOffset, Zero)

\* C9: whenever a frame of an export run draws a lyric, the opacity is a
\* number in [0, 1] and the offset lies in [-10, 10].
C9_EnvelopeRange ==
    (LyricDrawn /\ pc # "idle") =>
        /\ frame.opacity.den > 0
        /\ RatLeq(Zero, frame.opacity) /\ RatLeq(frame.opacity, One)
        /\ frame.yOffset.den > 0
        /\ RatLeq(Rat(-10, 1), frame.yOffset)
        /\ RatLeq(frame.yOffset, Rat(10, 1))

\* C10 as stated: on any sorted event list, a sample time strictly between
\* the end of an event and the start of the next resolves to none in the
\* preview and in the export.
C10_GapIsNoneSortedOnly ==
    Sorted(timedLyrics) =>
        /\ InGap(timedLyrics, currentTime) => currentLyricIndex = -1
        /\ (FrameDrawn /\ InGap(timedLyrics, frame.frameTime))
              => frame.lyricIndex = -1

\* C10 amended: the same on a sorted list whose events do not overlap and
\* none of which ends before it starts.
C10_GapIsNone ==
    (Sorted(timedLyrics) /\ NonOverlapping(timedLyrics)
        /\ NonNegativeSpans(timedLyrics)) =>
        /\ InGap(timedLyrics, currentTime) => currentLyricIndex = -1
        /\ (FrameDrawn /\ InGap(timedLyrics, frame.frameTime))
              => frame.lyricIndex = -1

C10_Witness ==
    /\ Sorted(timedLyrics) /\ NonOverlapping(timedLyrics)
    /\ NonNegativeSpans(timedLyrics)
    /\ currentTime > 0
    /\ InGap(timedLyrics, currentTime)
    /\ currentLyricIndex = -1
    /\ FrameDrawn
    /\ frame.frameTime = currentTime
    /\ frame.lyricIndex = -1

\* C11 as stated: on a sorted event list, for sample times that do not
\* decrease, the index the preview resolves (currentLyricIndex) does not
\* decrease.
C11_IndexNonDecreasingLiteral ==
    Sorted(timedLyrics) =>
        \A t \in HalfFrameTimes :
            t >= currentTime =>
                ResolveCurrentLyricIndex(timedLyrics, t) >= currentLyricIndex

\* C11 amended: on a sorted event list, for sample times that do not
\* decrease, the events the preview resolves appear in event order: of two
\* samples that both resolve to an event, the later one does not resolve to
\* an earlier event. Samples that resolve to none (-1) may lie in between.
C11_EventIndexNonDecreasing ==
    Sorted(timedLyrics) =>
        \A t \in HalfFrameTimes :
            (/\ t >= currentTime
             /\ currentLyricIndex # -1
             /\ ResolveCurrentLyricIndex(timedLyrics, t) # -1)
                => ResolveCurrentLyricIndex(timedLyrics, t)
                       >= currentLyricIndex

C11_Witness ==
    /\ Sorted(timedLyrics)
    /\ currentTime > 0
    /\ currentLyricIndex = 0
    /\ \E t \in HalfFrameTimes :
          /\ t > currentTime
          /\ ResolveCurrentLyricIndex(timedLyrics, t) = 1
    /\ \E t \in HalfFrameTimes :
          /\ t > currentTime
          /\ ResolveCurrentLyricIndex(timedLyrics, t) = -1

\* C12: every event list that reaches the VideoPlayer, from the timing screen
\* or from an SRT file, is sorted by startTime, has endTime > startTime >= 0
\* in every event, and has at most one event active at any time.
C12_PreviewListWellFormed ==
    appState = "PREVIEW" => LyricEventInvariant(timedLyrics)

\* C13: for every totalFrames of an export run and all frame indices
\* a < b below it, the file name written for frame a sorts before the name
\* written for frame b. The order of strings is transitive, so it is stated
\* for each frame and the frame before it.
C13_FrameNamesSortLikeIndices ==
    (FrameDrawn /\ frame.index >= 1) =>
        LexLess(FrameFileName(frame.index - 1), FrameFileName(frame.index))

\* the frame loop has written a frame and its progress is on show
FrameProgressShown ==
    pc = "render" /\ Len(written) > 0 /\ loadingState.progress # <<>>

\* C14: the progress emitted after a frame has been written is
\* (framesCompleted / totalFrames) * 100, framesCompleted being the number of
\* frames written so far; after the last frame it is 100.
C14_ProgressIsFramesCompleted ==
    FrameProgressShown =>
        /\ RatEq(loadingState.progress[1],
                 RatScale(100, Rat(Len(written), totalFrames)))
        /\ Len(written) = totalFrames
              => RatEq(loadingState.progress[1], Rat(100, 1))

\* C15: across one export run, every progress value reported (during frame
\* rendering and at the mux step) is greater than or equal to the one
\* reported before it, for any totalFrames.
C15_ProgressNeverDecreases ==
    [][(/\ runs' = runs
        /\ loadingState.progress # <<>>
        /\ loadingState'.progress # <<>>)
          => RatLeq(loadingState.progress[1], loadingState'.progress[1])]_vars

\* the phase of the export state machine the run is in
Phase ==
    CASE pc = "idle" -> "Idle"
      [] pc = "load" -> "LoadingEncoder"
      [] pc \in {"fetchAudio", "fetchImage", "imageLoad", "stalled"}
            -> "ReadingAssets"
      [] pc = "render" -> "RenderingFrames"
      [] pc = "mux" -> "Muxing"
      [] pc = "done" -> "Done"
      [] pc = "failed" -> "Failed"

PhaseRank(phase) ==
    CASE phase = "Idle" -> 0
      [] phase = "LoadingEncoder" -> 1
      [] phase = "ReadingAssets" -> 2
      [] phase = "RenderingFrames" -> 3
      [] phase = "Muxing" -> 4
      [] phase = "Done" -> 5
      [] phase = "Failed" -> 5

\* C16: an export run moves through its phases only in the order Idle,
\* LoadingEncoder, ReadingAssets, RenderingFrames, Muxing, Done, with Failed
\* reachable from any phase that is not terminal; no phase is skipped or
\* revisited within a run, and Done and Failed are left only by a new run
\* the user starts.
C16_PhaseOrder ==
    [][/\ runs' = runs =>
             \/ Phase' = Phase
             \/ /\ Phase \notin {"Done", "Failed"}
                /\ \/ Phase' = "Failed"
                   \/ /\ Phase' # "Failed"
                      /\ PhaseRank(Phase') = PhaseRank(Phase) + 1
       /\ runs' # runs =>
             /\ runs' = runs + 1
             /\ Phase \in {"Idle", "Done", "Failed"}
             /\ Phase' = "LoadingEncoder"]_vars

C16_Witness ==
    /\ runs = 2
    /\ ffmpegLoaded
    /\ Phase = "Done"
    /\ Len(written) > 0

\* C17: when rendering or writing frame i fails, the run aborts at that
\* frame: the frames written by the run are 0..i-1, no frame beyond i is
\* drawn, the mux step is not invoked and no video is handed out. The run
\* stays so until the user starts a new one.
C17_FrameFailureAborts ==
    failedStep = "frame" =>
        /\ pc = "failed"
        /\ i < totalFrames
        /\ Len(written) = i
        /\ \A k \in 1..Len(written) : written[k] = k - 1
        /\ frame.index < i
        /\ muxCalls = 0
        /\ downloadCount = 0

C17_Witness ==
    /\ failedStep = "frame"
    /\ pc = "failed"
    /\ i >= 1
    /\ i + 1 < totalFrames
    /\ muxCalls = 0

\* C18: after an export run has failed, the files it wrote into the encoder
\* instance (audio, background, frames, output) are no longer present, so
\* that a later run finds the instance empty. Stated for the first run, so
\* that every file present is one the failed run wrote.
C18_FailedRunLeavesNothing ==
    (pc = "failed" /\ runs = 1) => fs = EmptyFS

Min(a, b) == IF a <= b THEN a ELSE b

C20_FramesUseInvocationValues ==
    [][/\ runs' # runs =>
             /\ exportStyle' = style
             /\ exportLyrics' = timedLyrics
             /\ exportDuration' = duration
       /\ runs' = runs =>
             /\ exportStyle' = exportStyle
             /\ exportLyrics' = exportLyrics
             /\ exportDuration' = exportDuration
       /\ (runs' = runs /\ written' # written) =>
             /\ frameStyle' = exportStyle
             /\ frame'.index < TotalFrames(exportDuration)
             /\ frame' = DrawFrame(exportLyrics, frame'.index)]_vars

\* a frame has been written after the style and the event list were changed
\* during the run
C20_Witness ==
    /\ pc = "render"
    /\ Len(written) >= 2
    /\ style # exportStyle
    /\ timedLyrics # exportLyrics
    /\ frameStyle = exportStyle
    /\ frame = DrawFrame(exportLyrics, frame.index)
    /\ frame # DrawFrame(timedLyrics, frame.index)

\* the event the preview hands to KaraokeLyric
currentLyric == timedLyrics[currentLyricIndex + 1]

\* C21: after any playback ticks and seeks, whenever the preview displays a
\* lyric, it is displayed inside its window: startTime <= currentTime <=
\* endTime, so the animation delay startTime - currentTime is <= 0 and the
\* elapsed phase currentTime - startTime is within [0, duration].
C21_DisplayedLyricInWindow ==
    currentLyricIndex > -1 =>
        /\ currentLyric.startTime - currentTime <= 0
        /\ currentTime - currentLyric.startTime >= 0
        /\ currentTime - currentLyric.startTime
               <= currentLyric.endTime - currentLyric.startTime

\* t rounded to the nearest millisecond, in milliseconds
RoundToMs(t) == (2 * t + TicksPerMs) \div (2 * TicksPerMs)

\* a stamp HH:MM:SS,mmm: two digits, colon, two digits up to 59, colon, two
\* digits up to 59, comma, three digits; and the time it writes is t rounded
\* to the nearest millisecond
StampWellFormed(str, t) ==
    /\ Len(str) = 12
    /\ \A k \in {1, 2, 4, 5, 7, 8, 10, 11, 12} : IsDigit(str[k])
    /\ str[3] = CharColon /\ str[6] = CharColon /\ str[9] = CharComma
    /\ DigitsValue(SubSeq(str, 4, 5), 0) <= 59
    /\ DigitsValue(SubSeq(str, 7, 8), 0) <= 59
    /\ DigitsValue(SubSeq(str, 10, 12), 0) <= 999
    /\ ((DigitsValue(SubSeq(str, 1, 2), 0) * 60
            + DigitsValue(SubSeq(str, 4, 5), 0)) * 60
            + DigitsValue(SubSeq(str, 7, 8), 0)) * 1000
           + DigitsValue(SubSeq(str, 10, 12), 0) = RoundToMs(t)

\* C22: every stamp secondsToSrtTime writes for a time t >= 0 has the form
\* HH:MM:SS,mmm, minutes and seconds two digits 00..59, milliseconds exactly
\* three digits 000..999, and denotes t rounded to the nearest millisecond.
C22_StampsWellFormed ==
    srtContent.present =>
        \A k \in 1..Len(timedLyrics) :
            /\ StampWellFormed(secondsToSrtTime(timedLyrics[k].startTime),
                               timedLyrics[k].startTime)
            /\ StampWellFormed(secondsToSrtTime(timedLyrics[k].endTime),
                               timedLyrics[k].endTime)

\* the events parseSrtWithTimestamps returns for the exported file, and
\* their texts
Reparsed == parseSrtWithTimestamps(SrtFileBlocks(srtContent.text))
ReparsedTexts == parseSrtTexts(SrtFileBlocks(srtContent.text))

WithinOneMs(a, b) == a - b <= TicksPerMs /\ b - a <= TicksPerMs

\* a text that is not empty, holds no carriage return and no empty line, and
\* does not end in white space
PlainText(text) ==
    /\ text # <<>>
    /\ ~IsSpace(text[Len(text)])
    /\ Head(text) # CharLF
    /\ ~Includes(text, <<CharCR>>)
    /\ ~Includes(text, <<CharLF, CharLF>>)

\* C23 as stated, for any event list: the exported file, parsed again by parseSrtWithTimestamps, gives as
\* many events as were exported, in the same order, each with the same text
\* and with start and end within 1 ms of the exported ones.
C23_SrtRoundTrip ==
    srtContent.present =>
        /\ Len(Reparsed) = Len(timedLyrics)
        /\ Len(ReparsedTexts) = Len(timedLyrics)
        /\ \A k \in 1..Len(timedLyrics) :
              /\ ReparsedTexts[k] = timedLyrics[k].text
              /\ WithinOneMs(Reparsed[k].startTime, timedLyrics[k].startTime)
              /\ WithinOneMs(Reparsed[k].endTime, timedLyrics[k].endTime)

\* C23: for event lists whose texts are plain, the exported file parsed again
\* by parseSrtWithTimestamps gives as many events, in the same order, with the
\* same texts and with start and end within 1 ms; and the list with only
\* "Hello" from 1.0 s to 2.5 s is exported as
\* '1\r\n00:00:01,000 --> 00:00:02,500\r\nHello'.
C23_PlainTextRoundTrip ==
    (srtContent.present /\ \A k \in 1..Len(timedLyrics) :
                              PlainText(timedLyrics[k].text)) =>
        /\ Len(Reparsed) = Len(timedLyrics)
        /\ ReparsedTexts = [k \in 1..Len(timedLyrics) |-> timedLyrics[k].text]
        /\ \A k \in 1..Len(timedLyrics) :
              /\ WithinOneMs(Reparsed[k].startTime, timedLyrics[k].startTime)
              /\ WithinOneMs(Reparsed[k].endTime, timedLyrics[k].endTime)
        /\ timedLyrics = <<TextEvent(Hello, TicksPerSecond,
                                     5 * (TicksPerSecond \div 2))>>
               => srtContent.text = HelloSrt

\* two events exported, one with a text of two lines and a start that is
\* written with the milliseconds rounded up to 1000
C23_Witness ==
    /\ srtContent.present
    /\ Len(timedLyrics) = 2
    /\ \A k \in 1..2 : PlainText(timedLyrics[k].text)
    /\ timedLyrics[1].text = TwoLines
    /\ timedLyrics[2].startTime = TicksPerSecond - 1
    /\ Len(Reparsed) = 2

\* sorted, and each event ends at the instant the next one starts
BackToBack(lyrics) ==
    /\ Sorted(lyrics)
    /\ \A a \in 1..(Len(lyrics) - 1) :
           lyrics[a].endTime = lyrics[a + 1].startTime

\* t is an instant two neighbouring events share
SharedInstant(lyrics, t) ==
    \E a \in 1..(Len(lyrics) - 1) :
        lyrics[a].endTime = t /\ lyrics[a + 1].startTime = t

\* C24: on a sorted list of back-to-back events, at an instant two events
\* share, the preview's backward scan and the export's forward scan resolve
\* the same event, so preview and exported frame never disagree there.
C24_SharedInstantAgreement ==
    BackToBack(timedLyrics) =>
        /\ (FrameDrawn /\ frame.frameTime = currentTime
                /\ SharedInstant(timedLyrics, currentTime))
              => frame.lyricIndex = currentLyricIndex
        /\ \A t \in HalfFrameTimes :
              SharedInstant(timedLyrics, t)
                  => ResolveCurrentLyricIndex(timedLyrics, t)
                         = FrameLyricIndex(timedLyrics, t)

\* the handleExport invocations that have begun and have reached neither the
\* download nor the catch block
RunsInProgress ==
    (IF pc \in {"idle", "done", "failed"} THEN 0 ELSE 1) + reentered

\* C25: at most one export run is in progress at any time; handleExport is
\* not started while an earlier invocation has reached neither Done nor
\* Failed.
C25_AtMostOneRun == RunsInProgress <= 1

C27_MuxHasFrames ==
    muxCalls > 0 => (totalFrames >= 1 /\ Len(written) >= 1)

\* C28: the App is in PREVIEW only while the lyrics text, the usable audio
\* URL, the song title and the artist name are all non-empty, whatever form
\* edits, navigation, timing completion and closing of the feedback modal
\* came before.
C28_PreviewHasCompleteForm ==
    appState = "PREVIEW" =>
        /\ lyricsText # ""
        /\ audioUrl # ""
        /\ songTitle # ""
        /\ artistName # ""

\* the event lists an imported file with time lines can give
ImportedLists ==
    {parseSrtWithTimestamps(blocks) : blocks \in SrtFiles} \ {<<>>}

\* C29: while timedLyrics is non-empty, every change of lyricsText either
\* clears timedLyrics (an edit the user confirmed, or the import of a file
\* without time lines) or comes with the event list of an imported file
\* (both replaced together); a declined confirmation changes neither.
C29_TextChangeResetsTiming ==
    [][(timedLyrics # <<>> /\ lyricsText' # lyricsText)
           => \/ timedLyrics' = <<>>
              \/ /\ timedLyrics' \in ImportedLists
                 /\ lyricsText' = "srt lyrics"]_vars

\* the form is open on an imported file: text and timing were replaced
\* together
C29_Witness ==
    /\ appState = "FORM"
    /\ lyricsText = "srt lyrics"
    /\ Len(timedLyrics) = 2
    /\ timedLyrics \in ImportedLists
    /\ ~srtReading

\* C30: the App shows the image or the video generator only when the
\* generators are unlocked; a wrong password or a cancelled prompt leaves
\* them locked, only the password 0000 unlocks them, and once unlocked they
\* are never locked again.
C30_GeneratorsNeedUnlock ==
    /\ [](appState \in {"IMAGE_GENERATOR", "VIDEO_GENERATOR"}
             => isAiGeneratorUnlocked)
    /\ [][/\ isAiGeneratorUnlocked => isAiGeneratorUnlocked'
          /\ \A password \in Passwords \ {"0000"} :
                 handleUnlockAiGenerator(password) => ~isAiGeneratorUnlocked'
          /\ (~isAiGeneratorUnlocked /\ isAiGeneratorUnlocked')
                 => handleUnlockAiGenerator("0000")]_vars

\* a generator is shown after the unlock
C30_Witness ==
    /\ appState = "VIDEO_GENERATOR"
    /\ isAiGeneratorUnlocked

====
